---- MODULE Spec2Model ----
(***************************************************************************)
(* wordlistdawg: the runtime dictionary API (src/dict.ts) and the DAWG     *)
(* build script (scripts/build_dawg.mjs).                                  *)
(*                                                                         *)
(* A JavaScript string is modelled as a sequence of one-character strings; *)
(* each character has its UTF-16 code unit (Code), which is what the       *)
(* relational operators of JavaScript compare.                             *)
(***************************************************************************)
EXTENDS Integers, Sequences, FiniteSets, TLC

\* ------------------------------------------------------------------ bounds
MaxLen == 2
MaxWordLen == 2
MaxWords == 2
MaxSeqLen == 3
MaxLines == 2
MaxCalls == 3
MaxAskCalls == 2
MaxResets == 1
MaxRuns == 2

\* --------------------------------------------------------------- characters
\* The characters query arguments are made of: a letter of A-Z, a lower-case
\* letter, a character that is no letter, and one whose upper-case form is
\* two letters long.
Chars == {"-", "A", "a", "ß"}

\* The letters the words of a word list are made of
Letters == {"A", "S"}

Code(c) ==
  CASE c = " " -> 32
    [] c = "-" -> 45
    [] c = "A" -> 65
    [] c = "D" -> 68
    [] c = "N" -> 78
    [] c = "S" -> 83
    [] c = "T" -> 84
    [] c = "a" -> 97
    [] c = "ß" -> 223

CodeA == 65
CodeZ == 90

\* /[A-Z]/ of normalizeWord's regular expression
IsAZ(c) == Code(c) >= CodeA /\ Code(c) <= CodeZ

\* All sequences over S of length at most n
SeqsUpTo(S, n) == UNION {[1..k -> S] : k \in 0..n}

\* String.prototype.toUpperCase, one character at a time
UpperChar(c) ==
  CASE c = "a" -> <<"A">>
    [] c = "ß" -> <<"S", "S">>
    [] OTHER -> <<c>>

RECURSIVE toUpperCase(_)
toUpperCase(s) ==
  IF s = <<>> THEN <<>> ELSE UpperChar(Head(s)) \o toUpperCase(Tail(s))

\* .replace(/[^A-Z]/gu, "")
StripNonAZ(s) == SelectSeq(s, IsAZ)

normalizeWord(input) == StripNonAZ(toUpperCase(input))

\* JavaScript's a < b on strings: lexicographic on code units, a proper
\* prefix being smaller.
RECURSIVE StrLess(_, _)
StrLess(a, b) ==
  IF b = <<>> THEN FALSE
  ELSE IF a = <<>> THEN TRUE
  ELSE IF Head(a) # Head(b) THEN Code(Head(a)) < Code(Head(b))
  ELSE StrLess(Tail(a), Tail(b))

\* JavaScript's a > b on strings
StrGreater(a, b) == StrLess(b, a)

\* JavaScript's a >= b on strings
StrGeq(a, b) == ~StrLess(a, b)

\* ------------------------------------------- scripts/build_dawg.mjs, pure
\* String.prototype.trim on one line (the model's only white space is " ")
RECURSIVE TrimStart(_)
TrimStart(s) ==
  IF s # <<>> /\ Head(s) = " " THEN TrimStart(Tail(s)) ELSE s

RECURSIVE TrimEnd(_)
TrimEnd(s) ==
  IF s # <<>> /\ s[Len(s)] = " " THEN TrimEnd(SubSeq(s, 1, Len(s) - 1)) ELSE s

Trim(s) == TrimEnd(TrimStart(s))

NonEmpty(s) == s # <<>>

\* parseWordsFile, applied to the lines contents.split(/\r?\n/u) yields:
\* .map((line) => line.trim()).filter(Boolean)
parseWordsFile(lines) ==
  SelectSeq([k \in 1..Len(lines) |-> Trim(lines[k])], NonEmpty)

Accepted == [ok |-> TRUE]

Rejected(i, prev, cur) ==
  [ok |-> FALSE, index |-> i - 1, prev |-> prev, nextIndex |-> i, cur |-> cur]

\* the loop of assertSortedUnique from JavaScript index i on; words[i] of the
\* source is words[i + 1] here (sequences start at 1). The result is Accepted
\* when the loop ends, or the thrown error's payload.
RECURSIVE assertSortedUniqueFrom(_, _)
assertSortedUniqueFrom(words, i) ==
  IF ~(i < Len(words)) THEN Accepted
  ELSE IF StrGeq(words[i], words[i + 1])
       THEN Rejected(i, words[i], words[i + 1])
       ELSE assertSortedUniqueFrom(words, i + 1)

\* assertSortedUnique with its loop started one element late
assertSortedUniqueLate(words) == assertSortedUniqueFrom(words, 2)

assertSortedUnique(words) == assertSortedUniqueFrom(words, 1)

\* ------------------------------------------------ the dawg-lookup library
\* The automaton of a word set: a state is the set of suffixes that lead from
\* it to acceptance, so equivalent states are one state (the minimal DAWG).
Child(L, c) == {Tail(w) : w \in {x \in L : x # <<>> /\ Head(x) = c}}

IsFinal(L) == <<>> \in L

OutLetters(L) == {Head(w) : w \in {x \in L : x # <<>>}}

\* a finite set of characters as a sequence in ascending code order
RECURSIVE Ascending(_)
Ascending(S) ==
  IF S = {} THEN <<>>
  ELSE LET m == CHOOSE c \in S : \A d \in S : Code(c) <= Code(d)
       IN <<m>> \o Ascending(S \ {m})

InSeq(x, seq) == \E k \in 1..Len(seq) : seq[k] = x

\* depth-first numbering of the states that have transitions, on first visit
RECURSIVE DfsVisit(_, _)
RECURSIVE DfsChildren(_, _, _)
DfsVisit(L, order) ==
  IF OutLetters(L) = {} \/ InSeq(L, order) THEN order
  ELSE DfsChildren(L, Ascending(OutLetters(L)), Append(order, L))

DfsChildren(L, letters, order) ==
  IF letters = <<>> THEN order
  ELSE DfsChildren(L, Tail(letters), DfsVisit(Child(L, Head(letters)), order))

RECURSIVE BlockStart(_, _)
BlockStart(order, k) ==
  IF k = 1 THEN 1
  ELSE BlockStart(order, k - 1) + Cardinality(OutLetters(order[k - 1]))

\* where a state's block of records starts; 0 for a state without transitions
TargetOf(order, L) ==
  IF OutLetters(L) = {} THEN 0
  ELSE BlockStart(order, CHOOSE k \in 1..Len(order) : order[k] = L)

Block(order, L) ==
  LET ls == Ascending(OutLetters(L))
  IN [j \in 1..Len(ls) |->
        [letter |-> ls[j],
         final |-> IsFinal(Child(L, ls[j])),
         target |-> TargetOf(order, Child(L, ls[j])),
         last |-> j = Len(ls)]]

RECURSIVE Blocks(_, _)
Blocks(order, k) ==
  IF k > Len(order) THEN <<>> ELSE Block(order, order[k]) \o Blocks(order, k + 1)

\* Trie.addWords(words) followed by Trie.pack()
Pack(wordSet) == Blocks(DfsVisit(wordSet, <<>>), 1)

\* buildPackedDawg
buildPackedDawg(words) == Pack({words[k] : k \in 1..Len(words)})

\* the record of letter c in the block that starts at pos, 0 if there is none
RECURSIVE FindRecord(_, _, _)
FindRecord(packed, pos, c) ==
  IF packed[pos].letter = c THEN pos
  ELSE IF packed[pos].last THEN 0
  ELSE FindRecord(packed, pos + 1, c)

RootBlock(packed) == IF packed = <<>> THEN 0 ELSE 1

NotFound == [found |-> FALSE, final |-> FALSE, pos |-> 0]

\* the traversal of s from the state whose block starts at pos
RECURSIVE Walk(_, _, _, _)
Walk(packed, s, pos, final) ==
  IF s = <<>> THEN [found |-> TRUE, final |-> final, pos |-> pos]
  ELSE IF pos = 0 THEN NotFound
  ELSE LET r == FindRecord(packed, pos, Head(s))
       IN IF r = 0 THEN NotFound
          ELSE Walk(packed, Tail(s), packed[r].target, packed[r].final)

PTrieIsWord(packed, s) ==
  LET w == Walk(packed, s, RootBlock(packed), FALSE) IN w.found /\ w.final

PTrieIsPrefix(packed, s) ==
  LET w == Walk(packed, s, RootBlock(packed), FALSE)
  IN w.found /\ (s # <<>> \/ w.pos # 0)

\* completions(prefix, 1).length > 0: some word continues the prefix
PTrieHasCompletion(packed, s) ==
  LET w == Walk(packed, s, RootBlock(packed), FALSE)
  IN w.found /\ (w.final \/ w.pos # 0)

\* ------------------------------------------------------ src/dict.ts, pure
\* trie is <<>> for null and <<t>> for a loaded TrieLike t, which carries the
\* packed payload and the prefix method its constructor happens to expose.
PrefixApis == {"isPrefix", "hasPrefix", "completions", "none"}

NewPTrie(packed, api) == [packed |-> packed, prefixApi |-> api]

IsNull(t) == t = <<>>

\* ensureLoaded returns the trie (TRUE) or throws (FALSE)
ensureLoaded(t) == ~IsNull(t)

Returned(b) == IF b THEN "true" ELSE "false"

NotLoadedError == "Dictionary not loaded"
NoPrefixMethodError == "no prefix lookup method"

\* isWord answering false where ensureLoaded would throw
isWordNoThrow(word, t) ==
  LET normalized == normalizeWord(word)
  IN IF normalized = <<>> \/ IsNull(t) THEN Returned(FALSE)
     ELSE Returned(PTrieIsWord(t[1].packed, normalized))

\* isWord without the call of normalizeWord
isWordRaw(word, t) ==
  IF word = <<>> THEN Returned(FALSE)
  ELSE IF ~ensureLoaded(t) THEN NotLoadedError
  ELSE Returned(PTrieIsWord(t[1].packed, word))

\* the outcome of isWord(word) when the module's trie is t
isWord(word, t) ==
  LET normalized == normalizeWord(word)
  IN IF normalized = <<>> THEN Returned(FALSE)
     ELSE IF ~ensureLoaded(t) THEN NotLoadedError
     ELSE Returned(PTrieIsWord(t[1].packed, normalized))

\* the outcome of isPrefix(prefix) when the module's trie is t
isPrefix(prefix, t) ==
  LET normalized == normalizeWord(prefix)
  IN IF normalized = <<>> THEN Returned(FALSE)
     ELSE IF ~ensureLoaded(t) THEN NotLoadedError
     ELSE IF t[1].prefixApi \in {"isPrefix", "hasPrefix"}
          THEN Returned(PTrieIsPrefix(t[1].packed, normalized))
     ELSE IF t[1].prefixApi = "completions"
          THEN Returned(PTrieHasCompletion(t[1].packed, normalized))
     ELSE NoPrefixMethodError

\* ================================================================= state
VARIABLES
  trie,         \* dict.ts: <<>> (null) or <<the loaded TrieLike>>
  loadPromise,  \* dict.ts: 0 (null) or the load whose promise it holds
  loads,        \* the runs of loadDictionary's async arrow function
  calls,        \* the loadDictionary calls made so far and their promises
  resets,       \* how often __resetDictionaryForTests was called
  trieSetBy,    \* the load whose line 80 assigned trie last (0: none)
  qArg,         \* the argument the queries are called with
  lastQuery,    \* the last isWord / isPrefix call and its outcome
  served,       \* the word list the served dict.dawg was built from
  bpc,          \* buildDawgFromWordsFile: the step the run is at
  berr,         \* buildDawgFromWordsFile: why the run failed
  words,        \* buildDawgFromWordsFile: the parsed words of the run
  runs,         \* how many build runs were started
  dawgFile,     \* dict.dawg on disk
  licenseFile,  \* licenses/DAWG-LOOKUP-LICENSE.txt on disk
  metaFile,     \* dict.meta.json on disk
  snap,         \* the three files as they were when the run started
  wroteDawg,    \* the run has written dict.dawg
  vWords,       \* the argument of a direct assertSortedUnique call
  vRes          \* its result

dictVars == <<trie, loadPromise, loads, calls, resets, trieSetBy, qArg, lastQuery, served>>
buildVars == <<bpc, berr, words, runs, dawgFile, licenseFile, metaFile, snap, wroteDawg>>
valVars == <<vWords, vRes>>
vars == <<dictVars, buildVars, valVars>>

\* ------------------------------------------------------------ input sets
\* query arguments: any string
Strings == SeqsUpTo(Chars, MaxLen)

\* words of a word list: non-empty, A-Z only
DictWords == SeqsUpTo(Letters, MaxWordLen) \ {<<>>}

\* word lists as words.txt holds them: accepted by assertSortedUnique
WordLists ==
  {w \in SeqsUpTo(DictWords, MaxWords) : assertSortedUnique(w).ok}

\* the scenario of the specification's section 8
ScenarioWords == << <<"A">>, <<"A", "N">>, <<"A", "N", "D">>, <<"A", "N", "T">> >>
ScenarioQueries ==
  {<<"A", "N", "D">>, <<"A", "S">>, <<"A", "N">>, <<"A", "N", "D", "S">>}

\* the word list behind the dict.dawg the server hands out in the load runs
SampleWords == << <<"A">>, <<"A", "S">> >>

NoQuery == [op |-> "none"]

\* ============================================================ src/dict.ts
Pending == {"fetchMeta", "metaJson", "fetchDawg", "text", "ctor"}

IsPending(l) == loads[l].pc \in Pending
IsSettled(l) == loads[l].pc \in {"fulfilled", "rejected"}

NewLoad == [pc |-> "fetchMeta", err |-> "none", cancelled |-> FALSE]

Advance(l, pc) == loads' = [loads EXCEPT ![l].pc = pc]

Reject(l, err) == loads' = [loads EXCEPT ![l].pc = "rejected", ![l].err = err]

\* loadDictionary without the check of loadPromise (lines 59-61)
LoadDictionaryCallNoJoin(limit) ==
  /\ Len(calls) < limit
  /\ IF ~IsNull(trie)
     THEN /\ calls' = Append(calls, [kind |-> "noop", load |-> 0, state |-> "fulfilled"])
          /\ UNCHANGED <<loads, loadPromise>>
     ELSE /\ loads' = Append(loads, NewLoad)
          /\ loadPromise' = Len(loads) + 1
          /\ calls' = Append(calls, [kind |-> "init", load |-> Len(loads) + 1, state |-> "pending"])
  /\ UNCHANGED <<trie, resets, trieSetBy, qArg, lastQuery, served>>
  /\ UNCHANGED <<buildVars, valVars>>

\* loadDictionary, up to its first suspension: lines 56-62 and, in the arrow
\* function, the call of fetch(metaUrl)
LoadDictionaryCall(limit) ==
  /\ Len(calls) < limit
  /\ IF ~IsNull(trie)
     THEN /\ calls' = Append(calls, [kind |-> "noop", load |-> 0, state |-> "fulfilled"])
          /\ UNCHANGED <<loads, loadPromise>>
     ELSE IF loadPromise # 0
     THEN /\ calls' = Append(calls, [kind |-> "join", load |-> loadPromise, state |-> "pending"])
          /\ UNCHANGED <<loads, loadPromise>>
     ELSE /\ loads' = Append(loads, NewLoad)
          /\ loadPromise' = Len(loads) + 1
          /\ calls' = Append(calls, [kind |-> "init", load |-> Len(loads) + 1, state |-> "pending"])
  /\ UNCHANGED <<trie, resets, trieSetBy, qArg, lastQuery, served>>
  /\ UNCHANGED <<buildVars, valVars>>

loadDictionary == LoadDictionaryCall(MaxCalls)

LoadUnchanged ==
  /\ UNCHANGED <<trie, loadPromise, calls, resets, trieSetBy, qArg, lastQuery, served>>
  /\ UNCHANGED <<buildVars, valVars>>

\* await fetch(metaUrl) settles; lines 64-69
FetchMetaSettles(l) ==
  /\ loads[l].pc = "fetchMeta"
  /\ \/ Advance(l, "metaJson")
     \/ Reject(l, "metaNotOk")
     \/ Reject(l, "fetchRejected")
  /\ LoadUnchanged

\* await metaResponse.json() settles; lines 69-73
MetaJsonSettles(l) ==
  /\ loads[l].pc = "metaJson"
  /\ \/ Advance(l, "fetchDawg")
     \/ Reject(l, "jsonRejected")
  /\ LoadUnchanged

\* await fetch(dawgUrl) settles; lines 73-78
FetchDawgSettles(l) ==
  /\ loads[l].pc = "fetchDawg"
  /\ \/ Advance(l, "text")
     \/ Reject(l, "dataNotOk")
     \/ Reject(l, "fetchRejected")
  /\ LoadUnchanged

\* await dawgResponse.text() settles; lines 78-79
TextSettles(l) ==
  /\ loads[l].pc = "text"
  /\ \/ Advance(l, "ctor")
     \/ Reject(l, "textRejected")
  /\ LoadUnchanged

\* new PTrie(packed) for the packed payload of the served dict.dawg
Constructed(api) == <<NewPTrie(buildPackedDawg(served), api)>>

\* trie = new PTrie(packed), which ends the arrow function; line 80
ConstructTrie(l, api) ==
  /\ trie' = Constructed(api)
  /\ trieSetBy' = l
  /\ Advance(l, "fulfilled")

\* await loadPTrieCtor() settles; lines 79-81
CtorSettles(l) ==
  /\ loads[l].pc = "ctor"
  /\ \/ \E api \in PrefixApis : ConstructTrie(l, api)
     \/ Reject(l, "ctorThrows") /\ UNCHANGED <<trie, trieSetBy>>
  /\ UNCHANGED <<loadPromise, calls, resets, qArg, lastQuery, served>>
  /\ UNCHANGED <<buildVars, valVars>>

Outcome(l) == loads[l].pc

\* InitiatorResumes with catch {} in place of finally: the error is swallowed
InitiatorResumesSwallow(c) ==
  /\ calls[c].kind = "init"
  /\ calls[c].state = "pending"
  /\ IsSettled(calls[c].load)
  /\ loadPromise' = 0
  /\ calls' = [calls EXCEPT ![c].state = "fulfilled"]
  /\ UNCHANGED <<trie, loads, resets, trieSetBy, qArg, lastQuery, served>>
  /\ UNCHANGED <<buildVars, valVars>>

\* InitiatorResumes without the finally block: loadPromise is cleared only
\* after a load that succeeded
InitiatorResumesNoFinally(c) ==
  /\ calls[c].kind = "init"
  /\ calls[c].state = "pending"
  /\ IsSettled(calls[c].load)
  /\ loadPromise' = IF Outcome(calls[c].load) = "fulfilled" THEN 0 ELSE loadPromise
  /\ calls' = [calls EXCEPT ![c].state = Outcome(calls[c].load)]
  /\ UNCHANGED <<trie, loads, resets, trieSetBy, qArg, lastQuery, served>>
  /\ UNCHANGED <<buildVars, valVars>>

\* the caller that started the load resumes after await loadPromise: the
\* finally block, then its own promise settles as the load did; lines 83-88
InitiatorResumes(c) ==
  /\ calls[c].kind = "init"
  /\ calls[c].state = "pending"
  /\ IsSettled(calls[c].load)
  /\ loadPromise' = 0
  /\ calls' = [calls EXCEPT ![c].state = Outcome(calls[c].load)]
  /\ UNCHANGED <<trie, loads, resets, trieSetBy, qArg, lastQuery, served>>
  /\ UNCHANGED <<buildVars, valVars>>

\* the promise of a caller that got loadPromise back follows it; line 60
JoinerSettles(c) ==
  /\ calls[c].kind = "join"
  /\ calls[c].state = "pending"
  /\ IsSettled(calls[c].load)
  /\ calls' = [calls EXCEPT ![c].state = Outcome(calls[c].load)]
  /\ UNCHANGED <<trie, loadPromise, loads, resets, trieSetBy, qArg, lastQuery, served>>
  /\ UNCHANGED <<buildVars, valVars>>

\* __resetDictionaryForTests; the loads then pending are the cancelled ones
resetDictionaryForTests ==
  /\ resets < MaxResets
  /\ resets' = resets + 1
  /\ trie' = <<>>
  /\ loadPromise' = 0
  /\ loads' = [l \in 1..Len(loads) |->
                 IF IsPending(l) THEN [loads[l] EXCEPT !.cancelled = TRUE] ELSE loads[l]]
  /\ UNCHANGED <<calls, trieSetBy, qArg, lastQuery, served>>
  /\ UNCHANGED <<buildVars, valVars>>

Asked(op, arg, out) ==
  [op |-> op, arg |-> arg, loaded |-> ~IsNull(trie), out |-> out]

QueryUnchanged ==
  /\ UNCHANGED <<trie, loadPromise, loads, calls, resets, trieSetBy, qArg, served>>
  /\ UNCHANGED <<buildVars, valVars>>

\* a call of isWord
CallIsWord ==
  /\ lastQuery' = Asked("isWord", qArg, isWord(qArg, trie))
  /\ QueryUnchanged

\* a call of isPrefix
CallIsPrefix ==
  /\ lastQuery' = Asked("isPrefix", qArg, isPrefix(qArg, trie))
  /\ QueryUnchanged

\* a file on disk: missing, cut short by a failed write, or whole
Absent == [kind |-> "absent"]
Truncated == [kind |-> "truncated"]
FileOf(content) == [kind |-> "file", content |-> content]

BuildIdle ==
  /\ bpc = "idle" /\ berr = "none" /\ words = <<>> /\ runs = 0
  /\ dawgFile = Absent /\ licenseFile = Absent /\ metaFile = Absent
  /\ snap = <<Absent, Absent, Absent>> /\ wroteDawg = FALSE

ValIdle == vWords = <<>> /\ vRes = <<>>

DictInit ==
  /\ trie = <<>>
  /\ loadPromise = 0
  /\ loads = <<>>
  /\ calls = <<>>
  /\ resets = 0
  /\ trieSetBy = 0
  /\ lastQuery = NoQuery

\* the runtime API without the test hook
Init == DictInit /\ served = SampleWords /\ qArg = <<>> /\ BuildIdle /\ ValIdle

\* the steps of the loads under way and of the callers that await them
LoadStep ==
  \/ \E l \in 1..Len(loads) : FetchMetaSettles(l)
  \/ \E l \in 1..Len(loads) : MetaJsonSettles(l)
  \/ \E l \in 1..Len(loads) : FetchDawgSettles(l)
  \/ \E l \in 1..Len(loads) : TextSettles(l)
  \/ \E l \in 1..Len(loads) : CtorSettles(l)
  \/ \E c \in 1..Len(calls) : InitiatorResumes(c)
  \/ \E c \in 1..Len(calls) : JoinerSettles(c)

Next == loadDictionary \/ LoadStep

Spec == Init /\ [][Next]_vars

\* the runtime API with __resetDictionaryForTests
NextReset == loadDictionary \/ LoadStep \/ resetDictionaryForTests

SpecReset == Init /\ [][NextReset]_vars

\* ----------------------------------------------- queries on a word list
\* loadDictionary run to its end without a failure: lines 56-88 in one step
LoadCompletes ==
  /\ IsNull(trie)
  /\ \E api \in PrefixApis : trie' = Constructed(api)
  /\ UNCHANGED <<loadPromise, loads, calls, resets, trieSetBy, qArg, lastQuery, served>>
  /\ UNCHANGED <<buildVars, valVars>>

QueryInit ==
  /\ DictInit
  /\ served \in WordLists \cup {ScenarioWords}
  /\ qArg \in Strings \cup DictWords \cup ScenarioQueries
  /\ BuildIdle
  /\ ValIdle

QueryNext == LoadCompletes \/ CallIsWord \/ CallIsPrefix

SpecQuery == QueryInit /\ [][QueryNext]_vars

\* ------------------------------------- queries while a load is under way
AskInit ==
  /\ DictInit
  /\ served = SampleWords
  /\ qArg \in Strings \cup DictWords
  /\ BuildIdle
  /\ ValIdle

AskNext ==
  \/ LoadDictionaryCall(MaxAskCalls)
  \/ LoadStep
  \/ CallIsWord
  \/ CallIsPrefix

SpecAsk == AskInit /\ [][AskNext]_vars

\* ================================================ scripts/build_dawg.mjs
\* the lines words.txt may hold
LineChars == {"A", " "}
Lines == SeqsUpTo(LineChars, MaxWordLen)
LineSeqs == SeqsUpTo(Lines, MaxLines)

\* sha256Hex: a digest that tells payloads apart
sha256Hex(input) == <<"sha256", input>>

\* Buffer.byteLength(packed, "utf8"): one unit per record of the payload
byteLength(packed) == Len(packed)

LicenseText == FileOf("LICENSE")

Files == <<dawgFile, licenseFile, metaFile>>

BuildFails(err) == bpc' = "failed" /\ berr' = err

\* a run of buildDawgFromWordsFile starts: line 153-156, up to await readFile
StartRun ==
  /\ bpc \in {"idle", "done", "failed"}
  /\ runs < MaxRuns
  /\ runs' = runs + 1
  /\ bpc' = "reading"
  /\ berr' = "none"
  /\ words' = <<>>
  /\ snap' = Files
  /\ wroteDawg' = FALSE
  /\ UNCHANGED <<dawgFile, licenseFile, metaFile>>
  /\ UNCHANGED <<dictVars, valVars>>

\* ReadAndValidate without the call of assertSortedUnique
ReadAndParse ==
  /\ bpc = "reading"
  /\ \/ \E lines \in LineSeqs :
          /\ words' = parseWordsFile(lines)
          /\ bpc' = "building"
          /\ UNCHANGED berr
     \/ BuildFails("io") /\ UNCHANGED words
  /\ UNCHANGED <<runs, dawgFile, licenseFile, metaFile, snap, wroteDawg>>
  /\ UNCHANGED <<dictVars, valVars>>

\* await fs.readFile(WORDS_PATH) settles; parseWordsFile and
\* assertSortedUnique follow without suspension: lines 156-164
ReadAndValidate ==
  /\ bpc = "reading"
  /\ \/ \E lines \in LineSeqs :
          /\ words' = parseWordsFile(lines)
          /\ IF assertSortedUnique(words').ok
             THEN bpc' = "building" /\ UNCHANGED berr
             ELSE BuildFails("validation")
     \/ BuildFails("io") /\ UNCHANGED words
  /\ UNCHANGED <<runs, dawgFile, licenseFile, metaFile, snap, wroteDawg>>
  /\ UNCHANGED <<dictVars, valVars>>

\* a step that changes no file: it resolves and the run goes on to the step
\* next, or it rejects and the run ends
Settles(at, next, err) ==
  /\ bpc = at
  /\ \/ bpc' = next /\ UNCHANGED berr
     \/ BuildFails(err)
  /\ UNCHANGED <<words, runs, dawgFile, licenseFile, metaFile, snap, wroteDawg>>
  /\ UNCHANGED <<dictVars, valVars>>

\* await buildPackedDawg(words) settles; lines 165-169
BuildSettles == Settles("building", "mkdirOut", "build")

\* await fs.mkdir(path.dirname(OUT_PATH)) settles; lines 169-170
MkdirOutSettles == Settles("mkdirOut", "writingDawg", "io")

\* await fs.writeFile(OUT_PATH, packed) settles; lines 170-176. A write that
\* fails leaves the file as it was or cut short.
WriteDawgSettles ==
  /\ bpc = "writingDawg"
  /\ \/ /\ dawgFile' = FileOf(buildPackedDawg(words))
        /\ wroteDawg' = TRUE
        /\ bpc' = "accessLicense"
        /\ UNCHANGED berr
     \/ /\ dawgFile' \in {dawgFile, Truncated}
        /\ BuildFails("io")
        /\ UNCHANGED wroteDawg
  /\ UNCHANGED <<words, runs, licenseFile, metaFile, snap>>
  /\ UNCHANGED <<dictVars, valVars>>

\* copyDawgLookupLicense: the candidates are probed; lines 127-148
AccessLicenseSettles == Settles("accessLicense", "mkdirLicenses", "license")

\* await fs.mkdir(LICENSES_DIR) settles; lines 148-149
MkdirLicensesSettles == Settles("mkdirLicenses", "copyingLicense", "io")

\* await fs.copyFile(source, DAWG_LICENSE_DEST) settles; lines 149, 177-180
CopyLicenseSettles ==
  /\ bpc = "copyingLicense"
  /\ \/ /\ licenseFile' = LicenseText
        /\ bpc' = "readingMeta"
        /\ UNCHANGED berr
     \/ /\ licenseFile' \in {licenseFile, Truncated}
        /\ BuildFails("io")
  /\ UNCHANGED <<words, runs, dawgFile, metaFile, snap, wroteDawg>>
  /\ UNCHANGED <<dictVars, valVars>>

\* writeMeta: await readJson(META_PATH) settles; lines 102-122. A file that
\* is missing reads as {}; one that is no JSON makes the run fail.
ReadMetaSettles ==
  /\ bpc = "readingMeta"
  /\ \/ metaFile # Truncated /\ bpc' = "mkdirMeta" /\ UNCHANGED berr
     \/ BuildFails("io")
  /\ UNCHANGED <<words, runs, dawgFile, licenseFile, metaFile, snap, wroteDawg>>
  /\ UNCHANGED <<dictVars, valVars>>

\* await fs.mkdir(path.dirname(META_PATH)) settles; lines 122-123
MkdirMetaSettles == Settles("mkdirMeta", "writingMeta", "io")

\* the artifacts entry writeMeta records; lines 116-121
MetaFor(packed) ==
  FileOf([dawgFile |-> "dict.dawg",
          dawgBytes |-> byteLength(packed),
          dawgSha256 |-> sha256Hex(packed)])

\* await fs.writeFile(META_PATH, ...) settles; lines 123, 181-184
WriteMetaSettles ==
  /\ bpc = "writingMeta"
  /\ \/ /\ metaFile' = MetaFor(buildPackedDawg(words))
        /\ bpc' = "done"
        /\ UNCHANGED berr
     \/ /\ metaFile' \in {metaFile, Truncated}
        /\ BuildFails("io")
  /\ UNCHANGED <<words, runs, dawgFile, licenseFile, snap, wroteDawg>>
  /\ UNCHANGED <<dictVars, valVars>>

DictIdle == DictInit /\ served = SampleWords /\ qArg = <<>>

BuildInit == DictIdle /\ BuildIdle /\ ValIdle

BuildNext ==
  \/ StartRun
  \/ ReadAndValidate
  \/ BuildSettles
  \/ MkdirOutSettles
  \/ WriteDawgSettles
  \/ AccessLicenseSettles
  \/ MkdirLicensesSettles
  \/ CopyLicenseSettles
  \/ ReadMetaSettles
  \/ MkdirMetaSettles
  \/ WriteMetaSettles

SpecBuild == BuildInit /\ [][BuildNext]_vars

\* ------------------------------------- assertSortedUnique called directly
ValChars == {"A", "a"}
ValStrings == SeqsUpTo(ValChars, MaxWordLen)

ValidateInit ==
  /\ DictIdle
  /\ BuildIdle
  /\ vWords \in SeqsUpTo(ValStrings, MaxSeqLen)
  /\ vRes = <<>>

\* assertSortedUnique(vWords) is called
CallAssertSortedUnique ==
  /\ vRes = <<>>
  /\ vRes' = <<assertSortedUnique(vWords)>>
  /\ UNCHANGED vWords
  /\ UNCHANGED <<dictVars, buildVars>>

SpecValidate == ValidateInit /\ [][CallAssertSortedUnique]_vars

\* ================================================================ claims
InList(w, list) == \E k \in 1..Len(list) : list[k] = w

AskedUnloaded == lastQuery.op # "none" /\ ~lastQuery.loaded

\* C3 as stated: every isWord or isPrefix call made while the dictionary is
\* not loaded, whatever its argument, throws the not-loaded error.
C3_ThrowsForEveryInput ==
  AskedUnloaded => lastQuery.out = NotLoadedError

\* C3, amended: a query made while the dictionary is not loaded throws the
\* not-loaded error when its argument normalizes to a non-empty string, and
\* returns false when it normalizes to the empty string.
C3_ThrowsUnlessEmpty ==
  AskedUnloaded =>
    IF normalizeWord(lastQuery.arg) # <<>>
    THEN lastQuery.out = NotLoadedError
    ELSE lastQuery.out = Returned(FALSE)

\* a query with a non-empty normalized argument threw while a load was in
\* flight
C3_Witness ==
  /\ AskedUnloaded
  /\ lastQuery.out = NotLoadedError
  /\ loadPromise # 0
  /\ IsPending(loadPromise)
  /\ lastQuery.arg # normalizeWord(lastQuery.arg)

AskedWordLoaded == lastQuery.op = "isWord" /\ lastQuery.loaded

\* C6 as stated: for every string s, isWord(s) on the dictionary built from W
\* equals s \in W.
C6_IsWordIsMembership ==
  AskedWordLoaded => lastQuery.out = Returned(InList(lastQuery.arg, served))

\* C6, amended: for every string s, isWord(s) on the dictionary built from W
\* equals normalizeWord(s) \in W; for s already upper-case A-Z that is s \in W.
C6_IsWordIsNormalizedMembership ==
  AskedWordLoaded =>
    lastQuery.out = Returned(InList(normalizeWord(lastQuery.arg), served))

\* isWord returned true for an argument that is not itself in W
C6_Witness ==
  /\ AskedWordLoaded
  /\ lastQuery.out = Returned(TRUE)
  /\ ~InList(lastQuery.arg, served)
  /\ Len(served) >= 2

\* C7: on a loaded dictionary isPrefix("") is true iff the word list is not
\* empty.
C7_EmptyPrefix ==
  (lastQuery.op = "isPrefix" /\ lastQuery.loaded /\ lastQuery.arg = <<>>) =>
    (lastQuery.out = Returned(TRUE) <=> served # <<>>)

InFlight == {l \in 1..Len(loads) : IsPending(l)}

CallMade == Len(calls') = Len(calls) + 1
NewCall == calls'[Len(calls')]
FetchStarted == Len(loads') = Len(loads) + 1

C1_Step ==
  /\ FetchStarted => IsNull(trie) /\ InFlight = {}
  /\ (CallMade /\ InFlight # {}) =>
       /\ ~FetchStarted
       /\ NewCall.kind = "join"
       /\ InFlight = {NewCall.load}
  /\ (CallMade /\ ~IsNull(trie)) =>
       /\ ~FetchStarted
       /\ NewCall.kind = "noop"
       /\ trie' = trie

\* C1: without __resetDictionaryForTests, a loadDictionary call starts a fetch
\* sequence only when the dictionary is not loaded and no load is in flight; a
\* call made while a load is in flight gets that load's promise; a call made
\* once the dictionary is loaded starts nothing and leaves trie as it is.
C1_SingleFlight == [][C1_Step]_vars

\* one call started a load, one joined it, one came after it had completed
C1_Witness ==
  /\ \E c \in 1..Len(calls) : calls[c].kind = "join"
  /\ \E c \in 1..Len(calls) : calls[c].kind = "noop"
  /\ Len(loads) = 1

Fulfilled == {c \in 1..Len(calls) : calls[c].state = "fulfilled"}

\* C2: whenever the promise loadDictionary returned to a caller is fulfilled,
\* the dictionary is loaded, by the one load that succeeded, and no isWord or
\* isPrefix call throws the not-loaded error.
C2_FulfilledMeansLoaded ==
  Fulfilled # {} =>
    /\ ~IsNull(trie)
    /\ Cardinality({l \in 1..Len(loads) : loads[l].pc = "fulfilled"}) = 1
    /\ \A s \in Strings \cup DictWords :
         /\ isWord(s, trie) # NotLoadedError
         /\ isPrefix(s, trie) # NotLoadedError

\* the caller that started the load and a caller that joined it are fulfilled
C2_Witness ==
  /\ \E c \in Fulfilled : calls[c].kind = "init"
  /\ \E c \in Fulfilled : calls[c].kind = "join"

Failed == {l \in 1..Len(loads) : loads[l].pc = "rejected"}

CallersOf(l) == {c \in 1..Len(calls) : calls[c].load = l}

\* the last load failed and the caller that started it has resumed
FailureHandled ==
  /\ loads # <<>>
  /\ Len(loads) \in Failed
  /\ \E c \in CallersOf(Len(loads)) :
       calls[c].kind = "init" /\ calls[c].state = "rejected"

C4_Step ==
  /\ \A l \in Failed' :
       /\ \A c \in CallersOf(l)' : calls'[c].state \in {"pending", "rejected"}
       /\ trieSetBy' # l
  /\ \A l \in Failed' \ Failed : IsNull(trie')
  /\ FailureHandled => IsNull(trie) /\ loadPromise = 0
  /\ (FailureHandled /\ CallMade) => FetchStarted /\ NewCall.kind = "init"

\* C4: a failed load never fulfils a caller that awaits it (each is rejected
\* when it settles), it leaves the dictionary not loaded, and once the caller
\* that started it has resumed, loadPromise is null again, so the next
\* loadDictionary call starts a fresh fetch sequence.
C4_FailureResets == [][C4_Step]_vars

\* a load failed for each of the three reasons, every caller of a failed load
\* was rejected, and a later load succeeded
C4_Witness ==
  /\ \E l \in Failed : loads[l].err \in {"metaNotOk", "dataNotOk", "ctorThrows"}
  /\ \E l \in Failed : \E c \in CallersOf(l) :
       calls[c].kind = "join" /\ calls[c].state = "rejected"
  /\ \E l \in 1..Len(loads) : loads[l].pc = "fulfilled" /\ l - 1 \in Failed
  /\ ~IsNull(trie)

\* a load started after a load that was cancelled, and not cancelled itself
IsRetry(l) == ~loads[l].cancelled /\ \E k \in 1..(l - 1) : loads[k].cancelled

\* C5: a load cancelled by __resetDictionaryForTests never assigns trie, and
\* its completion does not clear the loadPromise of a later call: a retry that
\* is in flight is the load loadPromise holds, so no further load starts
\* beside it.
C5_CancelledLoadAbandoned ==
  /\ trieSetBy # 0 => ~loads[trieSetBy].cancelled
  /\ \A l \in InFlight : IsRetry(l) => loadPromise = l

Validated == vRes # <<>>

\* the positions i whose pair vWords[i], vWords[i + 1] is not increasing
Offending == {i \in 1..(Len(vWords) - 1) : ~StrLess(vWords[i], vWords[i + 1])}

FirstOffending == CHOOSE i \in Offending : \A j \in Offending : i <= j

\* C8: assertSortedUnique accepts a sequence iff every adjacent pair is
\* strictly increasing; when it rejects, the error names the first offending
\* pair: its two (zero-based) indices and its two values.
C8_AcceptsIffStrictlyIncreasing ==
  Validated =>
    /\ vRes[1].ok <=> Offending = {}
    /\ Offending # {} =>
         /\ vRes[1].index = FirstOffending - 1
         /\ vRes[1].nextIndex = FirstOffending
         /\ vRes[1].prev = vWords[FirstOffending]
         /\ vRes[1].cur = vWords[FirstOffending + 1]

\* a sequence with two offending pairs, a duplicate among them, was rejected
\* at its first
C8_Witness ==
  /\ Validated
  /\ ~vRes[1].ok
  /\ Cardinality(Offending) = 2
  /\ \E i \in Offending : vWords[i] = vWords[i + 1]

HasEmpty(ws) == \E k \in 1..Len(ws) : ws[k] = <<>>
HasNonAZ(ws) == \E k \in 1..Len(ws) : \E j \in 1..Len(ws[k]) : ~IsAZ(ws[k][j])

\* C9 as stated: assertSortedUnique fails on every sequence that contains an
\* empty string or a string with a character outside A-Z.
C9_RejectsEmptyAndNonAZ ==
  (Validated /\ (HasEmpty(vWords) \/ HasNonAZ(vWords))) => ~vRes[1].ok

\* C9, amended: assertSortedUnique fails on every sequence that contains an
\* empty string at a position other than the first; a sequence whose first
\* element is empty or that holds a character outside A-Z fails only if it is
\* not strictly increasing, so every sequence of length one is accepted.
C9_RejectsOrderOnly ==
  Validated =>
    /\ (\E k \in 2..Len(vWords) : vWords[k] = <<>>) => ~vRes[1].ok
    /\ ((HasEmpty(vWords) \/ HasNonAZ(vWords)) /\ Offending = {}) => vRes[1].ok
    /\ Len(vWords) <= 1 => vRes[1].ok

\* a sequence with an empty string after its first element was rejected
C9_Witness ==
  /\ Validated
  /\ ~vRes[1].ok
  /\ Len(vWords) >= 2
  /\ vWords[1] # <<>>
  /\ vWords[Len(vWords)] = <<>>

C10_Step ==
  /\ ~assertSortedUnique(words').ok =>
       /\ bpc' = "failed"
       /\ berr' = "validation"
       /\ Files' = snap'
       /\ ~wroteDawg'
  /\ metaFile' # metaFile =>
       /\ wroteDawg
       /\ dawgFile = FileOf(buildPackedDawg(words))

\* C10: when assertSortedUnique rejects the parsed words, the run of
\* buildDawgFromWordsFile ends with that error and dict.dawg, the license
\* copy and dict.meta.json are as they were when the run started; and
\* dict.meta.json changes only in a run that has written dict.dawg before.
C10_ValidationFailureWritesNothing == [][C10_Step]_vars

\* a run failed validation after an earlier run had written all three files
C10_Witness ==
  /\ bpc = "failed"
  /\ berr = "validation"
  /\ dawgFile.kind = "file"
  /\ metaFile.kind = "file"
  /\ licenseFile = LicenseText

====
